---- MODULE Spec2Model ----
(***************************************************************************)
(* Werewolf Arena: the game master's round/phase state machine             *)
(* (werewolf/game.py), the players' decision operations                    *)
(* (werewolf/model.py), run / save / resume (werewolf/runner.py,           *)
(* werewolf/logging.py) and the retrying generation wrapper                *)
(* (werewolf/lm.py, werewolf/utils.py).                                    *)
(*                                                                         *)
(* Three specifications share the variables:                               *)
(*   Spec     the game: one action per phase of GameMaster.run_round, the  *)
(*            run_game loop, and resume_game; the step that ends a run     *)
(*            includes runner's except clause and save_game;               *)
(*   SpecGen  one call of lm.generate, one action per loop iteration;      *)
(*   SpecPool one fan-out phase (bids, votes, summaries): the executor,    *)
(*            its calls, and the thread that submits and reads them.       *)
(***************************************************************************)
EXTENDS Integers, Sequences, FiniteSets, TLC

VARIABLES
    gen,                  \* lm.generate: the locals of the call in progress
    pc,                   \* position of the game master in run_game / run_round
    rounds,               \* State.rounds
    logs,                 \* GameMaster.logs
    winner,               \* State.winner
    error_message,        \* State.error_message
    current_round_num,    \* GameMaster.current_round_num
    observations,         \* Player.observations, per player
    gamestate,            \* Player.gamestate (GameView), per player
    previously_unmasked,  \* Seer.previously_unmasked
    idx,                  \* loop index of run_day_phase
    next_speaker,         \* local of run_day_phase
    disk,                 \* the session directory: game_partial / game_complete / game_logs
    resumes,              \* number of resume_game calls made so far
    round_start,          \* history: the agents' state when the current round was started by live play
    loaded,               \* history: what the last resume_game read and did
    session,              \* State.seer, doctor, villagers, werewolves, players (name -> role)
    pool,                 \* one fan-out phase: its executor, its calls and what it appended
    synthetic_votes       \* config.RUN_SYNTHETIC_VOTES as the run was configured

gameVars == <<pc, rounds, logs, winner, error_message, current_round_num,
              observations, gamestate, previously_unmasked, idx, next_speaker,
              disk, resumes, round_start, loaded, session, synthetic_votes>>
vars == <<gen, pool, gameVars>>

(***************************************************************************)
(* Python values.  Every value is a record with a tag t, so that values of *)
(* different Python types can be compared.                                 *)
(***************************************************************************)
None == [t |-> "None"]
PyStr(s) == [t |-> "str", s |-> s]
PyDict(d) == [t |-> "dict", d |-> d]
EmptyFn == [k \in {} |-> None]

\* bool(x) for the values above
Truthy(x) ==
    CASE x.t = "None" -> FALSE
      [] x.t = "str" -> x.s # ""
      [] x.t = "dict" -> DOMAIN x.d # {}
      [] OTHER -> TRUE

(***************************************************************************)
(* Decision gateway: lm.generate, utils.parse_json                         *)
(***************************************************************************)
RETRIES == 3

\* Temperatures are Python floats (IEEE doubles).  A double is written by the
\* tenths of a decimal and its distance, in units of 2^-53, from the double
\* nearest that decimal: Float(9, 0) is the literal 0.9, Float(9, -1) is
\* 0.8999999999999999.
Float(tenths, ulps) == [tenths |-> tenths, ulps |-> ulps]
FloatLeq(a, b) == a.tenths < b.tenths \/ (a.tenths = b.tenths /\ a.ulps <= b.ulps)
\* min(a, b)
FloatMin(a, b) == IF FloatLeq(b, a) THEN b ELSE a
\* a + b rounded to the nearest double, for the sums generate can come to:
\* 0.5 + 0.2 is the double 0.7, 0.7 + 0.2 is 0.8999999999999999,
\* 0.8999999999999999 + 0.2 is 1.0999999999999999, 1.0 + 0.2 is 1.2.
FloatAdd(a, b) ==
    CASE a = Float(5, 0) /\ b = Float(2, 0) -> Float(7, 0)
      [] a = Float(7, 0) /\ b = Float(2, 0) -> Float(9, -1)
      [] a = Float(9, -1) /\ b = Float(2, 0) -> Float(11, -2)
      [] a = Float(10, 0) /\ b = Float(2, 0) -> Float(12, 0)

TEMPERATURE_STEP == Float(2, 0)
TEMPERATURE_MAX == Float(10, 0)
TEMPERATURE_OPTIONS == Float(5, 0)
TEMPERATURE_FREE == Float(10, 0)

\* The documents the backend answers with.  A text is its body, possibly
\* wrapped in a ```json fence.
Bodies == {"{", "a: b: c", "I pass.", "", "{}", "{reasoning: r}",
           "{reasoning: r, vote: Derek}", "{reasoning: r, vote: Nobody}"}
Text(fence, body) == [t |-> "text", fence |-> fence, body |-> body]
Texts == {Text(f, b) : f \in BOOLEAN, b \in Bodies}
\* What apis.generate does in one invocation: it raises, or returns a text.
BackendRaises == [t |-> "raises"]
Responses == {BackendRaises} \cup Texts

\* yaml.safe_load on a body: a value, yaml.parser.ParserError, or another
\* YAML error (yaml.scanner.ScannerError).
yaml_safe_load(body) ==
    CASE body = "{" -> [err |-> "ParserError", val |-> None]
      [] body = "a: b: c" -> [err |-> "ScannerError", val |-> None]
      [] body = "I pass." -> [err |-> "", val |-> PyStr("I pass.")]
      [] body = "" -> [err |-> "", val |-> None]
      [] body = "{}" -> [err |-> "", val |-> PyDict(EmptyFn)]
      [] body = "{reasoning: r}" ->
            [err |-> "", val |-> PyDict([k \in {"reasoning"} |-> PyStr("r")])]
      [] body = "{reasoning: r, vote: Derek}" ->
            [err |-> "", val |-> PyDict([k \in {"reasoning", "vote"} |->
                                   IF k = "vote" THEN PyStr("Derek") ELSE PyStr("r")])]
      [] body = "{reasoning: r, vote: Nobody}" ->
            [err |-> "", val |-> PyDict([k \in {"reasoning", "vote"} |->
                                   IF k = "vote" THEN PyStr("Nobody") ELSE PyStr("r")])]

\* utils.parse_json_str: ParserError is swallowed into None, any other error
\* propagates.  A whole text that carries a fence starts with a backquote,
\* which YAML cannot scan.
parse_json_str(fence, body) ==
    IF fence THEN [raised |-> TRUE, val |-> None]
    ELSE LET y == yaml_safe_load(body)
         IN  CASE y.err = "ParserError" -> [raised |-> FALSE, val |-> None]
               [] y.err = "" -> [raised |-> FALSE, val |-> y.val]
               [] OTHER -> [raised |-> TRUE, val |-> None]

\* utils.parse_json_markdown: the content of the first ```json block, parsed.
parse_json_markdown(text) ==
    IF text.fence THEN parse_json_str(FALSE, text.body)
    ELSE [raised |-> FALSE, val |-> None]

\* utils.parse_json
parse_json(text) ==
    LET md == parse_json_markdown(text)
    IN  IF md.raised THEN md
        ELSE IF ~Truthy(md.val) THEN parse_json_str(text.fence, text.body)
        ELSE md

\* dict.get(key); anything but a dict has no get.
PyGet(x, key) ==
    IF x.t # "dict" THEN [raised |-> TRUE, val |-> None]
    ELSE [raised |-> FALSE, val |-> IF key \in DOMAIN x.d THEN x.d[key] ELSE None]

\* A gateway that accepts every string, listed or not
AnyString(result, vals) == result.t = "str"

\* `result in allowed_values`, allowed_values a list of str
InAllowed(result, vals) == result.t = "str" /\ result.s \in vals

\* The body of the try block of one iteration of generate's loop, given what
\* the backend did.  ret: the iteration returned (result, log); otherwise it
\* fell through to the retry lines with raw_resp as it stands.
GenerateTry(resp, allowed_given, allowed_values, result_key) ==
    IF resp = BackendRaises
    THEN [ret |-> FALSE, raw_resp |-> None, result |-> None, log |-> None]
    ELSE LET parsed == parse_json(resp)
             log == [raw_resp |-> resp, result |-> parsed.val]
             proj == IF Truthy(parsed.val) /\ result_key # ""
                     THEN PyGet(parsed.val, result_key)
                     ELSE [raised |-> FALSE, val |-> parsed.val]
         IN  IF parsed.raised \/ proj.raised
             THEN [ret |-> FALSE, raw_resp |-> resp, result |-> None, log |-> None]
             ELSE IF ~allowed_given \/ InAllowed(proj.val, allowed_values)
             THEN [ret |-> TRUE, raw_resp |-> resp, result |-> proj.val, log |-> log]
             ELSE [ret |-> FALSE, raw_resp |-> resp, result |-> None, log |-> None]

\* temperature = min(1.0, temperature + 0.2)
\* A variant of the retry lines that leaves the temperature as it is
Unraised(t) == t

NextTemperature(t) == FloatMin(TEMPERATURE_MAX, FloatAdd(t, TEMPERATURE_STEP))

\* "-------".join(raw_responses): str.join raises TypeError on a None item;
\* otherwise the result is determined by the parts in order.
Join(raw_responses) ==
    IF \E i \in 1..Len(raw_responses) : raw_responses[i] = None
    THEN [raised |-> TRUE, val |-> None]
    ELSE [raised |-> FALSE, val |-> [t |-> "joined", parts |-> raw_responses]]

\* The (result_key, allowed_values) pairs Player._generate_action passes:
\* both for an option-restricted action (the option list may be empty),
\* neither for debate and summarize.
GenCalls ==
    {[allowed_given |-> TRUE, allowed_values |-> {"Derek"}, result_key |-> "vote"],
     [allowed_given |-> TRUE, allowed_values |-> {}, result_key |-> "vote"],
     [allowed_given |-> FALSE, allowed_values |-> {}, result_key |-> ""]}

\* temperature = 0.5 if allowed_values else 1.0
InitialTemperature(call) ==
    IF call.allowed_given /\ call.allowed_values # {} THEN TEMPERATURE_OPTIONS
    ELSE TEMPERATURE_FREE

GenIdle ==
    [pc |-> "idle", call |-> [allowed_given |-> FALSE, allowed_values |-> {},
                              result_key |-> ""],
     temperature |-> Float(0, 0), temperatures |-> <<>>, attempt |-> 0, backend |-> <<>>,
     raw_responses |-> <<>>, result |-> None, log |-> None]

\* generate is entered: prompt rendered, raw_responses = []
GenEnter ==
    /\ gen.pc = "idle"
    /\ \E call \in GenCalls :
          gen' = [gen EXCEPT !.pc = "loop", !.call = call,
                             !.temperature = InitialTemperature(call)]
    /\ UNCHANGED <<pool, gameVars>>

\* One iteration of `for _ in range(RETRIES)`.  backend records what the
\* backend did at each invocation, temperatures what it was called with.
GenAttempt ==
    /\ gen.pc = "loop"
    /\ gen.attempt < RETRIES
    /\ \E resp \in Responses :
          LET try == GenerateTry(resp, gen.call.allowed_given,
                                 gen.call.allowed_values, gen.call.result_key)
              called == [gen EXCEPT !.attempt = @ + 1,
                                    !.backend = Append(@, resp),
                                    !.temperatures = Append(@, gen.temperature)]
          IN  gen' = IF try.ret
                     THEN [called EXCEPT !.pc = "returned", !.result = try.result,
                                         !.log = try.log]
                     ELSE [called EXCEPT !.temperature = NextTemperature(@),
                                         !.raw_responses = Append(@, try.raw_resp)]
    /\ UNCHANGED <<pool, gameVars>>

\* The lines after the loop: return None with the joined raw responses.
GenExhausted ==
    /\ gen.pc = "loop"
    /\ gen.attempt = RETRIES
    /\ LET joined == Join(gen.raw_responses)
       IN  gen' = IF joined.raised
                  THEN [gen EXCEPT !.pc = "raised"]
                  ELSE [gen EXCEPT !.pc = "returned", !.result = None,
                                   !.log = [raw_resp |-> joined.val, result |-> None]]
    /\ UNCHANGED <<pool, gameVars>>

GenInit == gen = GenIdle
GenNext == GenEnter \/ GenAttempt \/ GenExhausted

(***************************************************************************)
(* The cast.  State.__init__ builds State.players from villagers +         *)
(* werewolves + [doctor, seer]; that dict order is the order of every      *)
(* roster list, since rosters only ever lose names.                        *)
(***************************************************************************)
villagers == <<"Hayley">>
werewolves == <<"Derek", "Scott">>
doctor == "Jacob"
seer == "Isaac"
PlayerOrder == villagers \o werewolves \o <<doctor, seer>>
Names == {PlayerOrder[i] : i \in 1..Len(PlayerOrder)}
WerewolfNames == {werewolves[i] : i \in 1..Len(werewolves)}

VILLAGER == "Villager"
WEREWOLF == "Werewolf"
SEER == "Seer"
DOCTOR == "Doctor"

\* Player.role
Role(n) ==
    IF n = seer THEN SEER
    ELSE IF n = doctor THEN DOCTOR
    ELSE IF n \in WerewolfNames THEN WEREWOLF
    ELSE VILLAGER

\* The names random.shuffle left in get_player_names' sample, in one of its
\* orders: the one that gives the cast above.
Shuffled == <<"Hayley", "Scott", "Derek", "Jacob", "Isaac">>

\* runner.initialize_players: the Seer, the Doctor and the two Werewolves are
\* popped from the end of the shuffled names, the rest are Villagers.
initialize_players(player_names) ==
    LET n == Len(player_names)
    IN  [seer |-> player_names[n],
         doctor |-> player_names[n - 1],
         werewolves |-> <<player_names[n - 2], player_names[n - 3]>>,
         villagers |-> SubSeq(player_names, 1, n - 4)]

SeqSet(list) == {list[i] : i \in 1..Len(list)}

\* State.__init__: the dict of the players is filled from villagers +
\* werewolves + [doctor, seer], a later entry replacing an earlier one of the
\* same name; each entry has the role of the class that made it.
State(cast) ==
    [seer |-> cast.seer, doctor |-> cast.doctor,
     villagers |-> cast.villagers, werewolves |-> cast.werewolves,
     players |-> [n \in SeqSet(cast.villagers) \cup SeqSet(cast.werewolves)
                          \cup {cast.doctor, cast.seer} |->
                     IF n = cast.seer THEN SEER
                     ELSE IF n = cast.doctor THEN DOCTOR
                     ELSE IF n \in SeqSet(cast.werewolves) THEN WEREWOLF
                     ELSE VILLAGER]]

\* model.to_dict of a State: every object by its __dict__; of a player the
\* session data keeps the name and the role.
to_dict(o) ==
    LET player(n) == [name |-> n, role |-> o.players[n]]
    IN  [seer |-> player(o.seer), doctor |-> player(o.doctor),
         villagers |-> [i \in 1..Len(o.villagers) |-> player(o.villagers[i])],
         werewolves |-> [i \in 1..Len(o.werewolves) |-> player(o.werewolves[i])],
         players |-> [n \in DOMAIN o.players |-> player(n)]]

\* A variant of State.from_json that reads no villagers
FromJsonWithoutVillagers(data) ==
    State([seer |-> data.seer.name, doctor |-> data.doctor.name,
           villagers |-> <<>>,
           werewolves |-> [i \in 1..Len(data.werewolves) |-> data.werewolves[i].name]])

\* State.from_json: each list is read by the from_json of its class, which
\* takes the name and gives the role of the class; "players" is not read.
State_from_json(data) ==
    State([seer |-> data.seer.name, doctor |-> data.doctor.name,
           villagers |-> [i \in 1..Len(data.villagers) |-> data.villagers[i].name],
           werewolves |-> [i \in 1..Len(data.werewolves) |-> data.werewolves[i].name]])

\* Index of a name in State.players; a roster list is the names of a set in
\* this order.
Position(n) == CHOOSE i \in 1..Len(PlayerOrder) : PlayerOrder[i] = n
Before(S, n) == {m \in S : Position(m) < Position(n)}
First(S) == CHOOSE n \in S : \A m \in S : Position(n) <= Position(m)

\* An Optional[str] that is None
NoName == "None"
\* What a decision call can come to besides a value: generate returned None,
\* or an exception left the call.
NoResult == "None"
Raises == "<raises>"

(***************************************************************************)
(* Bounds of the model                                                     *)
(***************************************************************************)
\* config.MAX_DEBATE_TURNS is 8; the model runs the same loop with fewer turns.
MAX_DEBATE_TURNS == 2
\* Player.bid offers "0".."4"; the model offers 0..MaxBid.
MaxBid == 1
\* A decision is offered a list of names; the model lets the answer range
\* over the first MaxChoices of them.
MaxChoices == 2
\* resume_game can be called any number of times on a directory.
MaxResumes == 1

\* config.RUN_SYNTHETIC_VOTES as shipped; a run can be configured either way.
RUN_SYNTHETIC_VOTES == TRUE
SyntheticVoteSettings == {RUN_SYNTHETIC_VOTES, ~RUN_SYNTHETIC_VOTES}

\* What the speaker of a debate turn can say: a dialogue is modelled by the
\* set of names that occur in it (`name in previous_dialogue`).
Dialogues == {{}, {"Derek", "Isaac"}}

(***************************************************************************)
(* Data model: werewolf/model.py                                           *)
(***************************************************************************)
\* Round.debate, Round.votes and Round.bids are append-only lists of which the
\* code reads the length and the last element only.  The model keeps the
\* length, and the last element up to the step after which no code reads it
\* again (Read, Heard): a bid map until its speaker has spoken, a transcript
\* entry until the next speaker is chosen or the debate is over, a tally until
\* the next turn or the end of the round.
NoDebate == [len |-> 0, speaker |-> NoName, dialogue |-> {}]
\* A list, a transcript, whose last element the code will not read again
Read(list) == [list EXCEPT !.last = [n \in {} |-> "None"]]
Heard(debate) == [debate EXCEPT !.speaker = "None", !.dialogue = {}]
EmptyMap == [n \in {} |-> NoName]
NoVotes == [len |-> 0, last |-> EmptyMap]
NoBids == [len |-> 0, last |-> EmptyMap]

\* A variant of Round.__init__ that creates the round successful
RoundBornSuccessful ==
    [players |-> {}, eliminated |-> NoName, unmasked |-> NoName,
     protected |-> NoName, exiled |-> NoName, debate |-> NoDebate,
     votes |-> NoVotes, bids |-> NoBids, success |-> TRUE]

\* Round.__init__
Round ==
    [players |-> {}, eliminated |-> NoName, unmasked |-> NoName,
     protected |-> NoName, exiled |-> NoName, debate |-> NoDebate,
     votes |-> NoVotes, bids |-> NoBids, success |-> FALSE]

\* RoundLog.__init__: which single logs are set, and the lengths of the lists
RoundLog ==
    [eliminate |-> FALSE, investigate |-> FALSE, protect |-> FALSE,
     bid |-> 0, debate |-> 0, votes |-> 0, summaries |-> 0]

\* GameView.__init__.  Of GameView.debate the code reads the length only (the
\* entries go into the prompt); the model keeps the length.
GameView(round_number, current_players, other_wolf) ==
    [kind |-> "GameView", round_number |-> round_number,
     current_players |-> current_players, debate |-> 0,
     other_wolf |-> other_wolf]

\* Player.from_json leaves the JSON object of the view in Player.gamestate
LoadedView == [kind |-> "dict"]

\* An observation "Round {n}: {text}"; the text is kept by its kind.
Observation(round_number, text) == [round |-> round_number, text |-> text]

\* Player._add_observation
AddObservation(obs, view, text) == Append(obs, Observation(view.round_number, text))

\* A variant of update_debate that adds nothing to the view
NoBroadcast(view, author, dialogue) == view

\* GameView.update_debate
UpdateDebate(view, author, dialogue) == [view EXCEPT !.debate = @ + 1]

\* GameView.clear_debate
ClearDebate(view) == [view EXCEPT !.debate = 0]

\* GameView.remove_player; list.remove raises when the name is absent
RemovePlayerRaises(view, name) == name \notin view.current_players
\* A variant of remove_player that leaves the view as it is
KeepPlayer(view, name) == view
RemovePlayer(view, name) == [view EXCEPT !.current_players = @ \ {name}]

\* The partner a Werewolf is created with in runner.initialize_players
OtherWolf(n) ==
    IF n \in WerewolfNames THEN CHOOSE w \in WerewolfNames : w # n ELSE NoName

(***************************************************************************)
(* The game master: werewolf/game.py                                       *)
(***************************************************************************)
\* GameMaster.this_round, GameMaster.this_round_log (Python indexes from 0)
this_round == rounds[current_round_num + 1]
this_round_log == logs[current_round_num + 1]
WithRound(r) == [rounds EXCEPT ![current_round_num + 1] = r]
WithLog(l) == [logs EXCEPT ![current_round_num + 1] = l]

\* The answers the model lets a decision give: the first MaxChoices options.
Choices(options) ==
    {n \in options : Cardinality(Before(options, n)) < MaxChoices}

\* What one decision call of a player comes to, given the options it offers:
\* one of the options, None (generate ran out of attempts; with no option to
\* offer nothing is ever accepted), or an exception out of the call.
DecisionOutcomes(options) == Choices(options) \cup {NoResult, Raises}

Max(S) == CHOOSE x \in S : \A y \in S : y <= x

\* A variant of get_max_bids that lets every bidder through
AllBidders(d) == DOMAIN d

\* get_max_bids
get_max_bids(d) ==
    LET max_value == Max({d[k] : k \in DOMAIN d})
    IN  {key \in DOMAIN d : d[key] = max_value}

\* The names random.choice can return in get_next_speaker: the maximum bidders,
\* those of them named in the previous dialogue once more.
SpeakerPool(bids, previous) ==
    LET potential_speakers == get_max_bids(bids)
    IN  potential_speakers \cup
        (IF previous.len > 0
         THEN {name \in potential_speakers : name \in previous.dialogue}
         ELSE {})

\* Counter(votes.values()).most_common(1)[0]: the highest count, and of the
\* names that have it the one met first in the order of the voters.
VoteCount(votes, name) == Cardinality({v \in DOMAIN votes : votes[v] = name})
FirstVoter(votes, name) ==
    First({v \in DOMAIN votes : votes[v] = name})
MostCommon(votes) ==
    LET voted == {votes[v] : v \in DOMAIN votes}
        top == Max({VoteCount(votes, n) : n \in voted})
        leaders == {n \in voted : VoteCount(votes, n) = top}
        most_voted == CHOOSE n \in leaders :
                          \A m \in leaders :
                              Position(FirstVoter(votes, n)) <= Position(FirstVoter(votes, m))
    IN  [most_voted |-> most_voted, vote_count |-> top]

\* A variant of the majority test for which half of the roster is enough
HalfSuffices(vote_count, players) == 2 * vote_count >= Cardinality(players)

\* A variant of the majority test that lets the leader of any tally through
LeaderSuffices(vote_count, players) == vote_count > 0

\* vote_count > len(self.this_round.players) / 2
IsMajority(vote_count, players) == 2 * vote_count > Cardinality(players)

\* A variant of get_winner in which the werewolves need a strict majority
StrictMajorityWinner(players) ==
    LET active_wolves == players \cap WerewolfNames
        active_villagers == players \ active_wolves
    IN  IF Cardinality(active_wolves) > Cardinality(active_villagers)
        THEN "Werewolves"
        ELSE IF active_wolves = {} THEN "Villagers" ELSE ""

\* A variant of get_winner that never declares the Villagers the winner
OnlyWerewolvesWin(players) ==
    LET active_wolves == players \cap WerewolfNames
        active_villagers == players \ active_wolves
    IN  IF Cardinality(active_wolves) >= Cardinality(active_villagers)
        THEN "Werewolves"
        ELSE ""

\* GameMaster.get_winner
get_winner(players) ==
    LET active_wolves == players \cap WerewolfNames
        active_villagers == players \ active_wolves
    IN  IF Cardinality(active_wolves) >= Cardinality(active_villagers)
        THEN "Werewolves"
        ELSE IF active_wolves = {} THEN "Villagers" ELSE ""

\* self.this_round.success = True.  The transcript and the tallies of a
\* finished round are never read again; the model keeps their lengths.
Succeed(r) ==
    [r EXCEPT !.success = TRUE,
              !.debate = Heard(@), !.votes = Read(@), !.bids = Read(@)]

\* A variant of the night's roster update that also removes a protected agent
\* who was not the target
RemoveProtectedToo(r) ==
    IF r.eliminated # r.protected THEN r.players \ {r.eliminated, r.protected}
    ELSE r.players

\* The roster resolve_night_phase leaves
NightRoster(r) ==
    IF r.eliminated # r.protected THEN r.players \ {r.eliminated} ELSE r.players

\* A variant of the Werewolf's options that leaves its partner in
PartnerIncluded(view, name) == view.current_players \ {name}

\* A variant of the Seer's options that forgets what was revealed before
AnyoneButSelf(view, name, unmasked) == view.current_players \ {name}

\* The option lists of the single-actor decisions (model.py)
EliminateOptions(view, name) == view.current_players \ {name, view.other_wolf}
ProtectOptions(view) == view.current_players
UnmaskOptions(view, name, unmasked) ==
    (view.current_players \ {name}) \ DOMAIN unmasked
VoteOptions(view, name) == view.current_players \ {name}

\* The tail of one iteration of run_game's loop: the views of the agents still
\* in the roster move to the next round.
\* A variant of run_game's loop tail that leaves the views in the old round
ViewsLeftBehind(players) == gamestate

NextRoundViews(players) ==
    [n \in Names |->
        IF n \in players
        THEN ClearDebate([gamestate[n] EXCEPT !.round_number = current_round_num + 1])
        ELSE gamestate[n]]

\* The agents' state a round starts from
StartState(players) ==
    [players |-> players,
     observations |-> [n \in players |-> observations[n]],
     gamestate |-> [n \in players |-> gamestate[n]],
     previously_unmasked |-> previously_unmasked]

\* A variant of save_game that writes the complete snapshot whatever the error
SaveComplete(error) ==
    [disk EXCEPT !.partial = FALSE, !.complete = TRUE, !.logs = TRUE,
                 !.complete_from = disk.saves + 1, !.logs_from = disk.saves + 1,
                 !.saves = @ + 1]

\* A variant of save_game that leaves an existing partial snapshot in place
SaveKeepsPartial(error) ==
    IF error # ""
    THEN [disk EXCEPT !.partial = TRUE, !.logs = TRUE,
                      !.partial_from = disk.saves + 1, !.logs_from = disk.saves + 1,
                      !.saves = @ + 1]
    ELSE [disk EXCEPT !.complete = TRUE, !.logs = TRUE,
                      !.complete_from = disk.saves + 1, !.logs_from = disk.saves + 1,
                      !.saves = @ + 1]

\* logging.save_game: which files the session directory has afterwards, and
\* which save each of them is from (a file's content is what the save that
\* wrote it dumped; 0 for no file).  What a save writes is State.to_dict() and
\* the logs as the run left them, and nothing but the end of the process lies
\* between a save and the next load: the content of the latest save is the
\* value of the variables.
save_game(error) ==
    IF error # ""
    THEN [disk EXCEPT !.partial = TRUE, !.logs = TRUE,
                      !.partial_from = disk.saves + 1, !.logs_from = disk.saves + 1,
                      !.saves = @ + 1]
    ELSE [disk EXCEPT !.partial = FALSE, !.partial_from = 0,
                      !.complete = TRUE, !.logs = TRUE,
                      !.complete_from = disk.saves + 1, !.logs_from = disk.saves + 1,
                      !.saves = @ + 1]

\* logging.load_game: the snapshot read is the partial one when it exists and
\* the complete one otherwise; the result is the save the files read are from.
load_game(d) ==
    [state |-> IF d.partial THEN d.partial_from ELSE d.complete_from,
     logs |-> d.logs_from]

\* runner.run_game and runner.resume_game after gm.run_game(), for a step
\* that ends the run: an exception is caught into State.error_message, and the
\* session is saved either way.
RunnerTail ==
    IF pc' = "failed"
    THEN error_message' = "Traceback" /\ disk' = save_game("Traceback")
    ELSE IF pc' = "finished"
    THEN UNCHANGED error_message /\ disk' = save_game(error_message)
    ELSE UNCHANGED <<error_message, disk>>
NoLoad == [fresh |-> FALSE, discarded |-> FALSE, filtered |-> {}]

(***************************************************************************)
(* The fan-out phases.  get_next_speaker, run_voting and run_summaries      *)
(* submit one call per agent to a ThreadPoolExecutor inside a `with` block *)
(* and read the results in the order of submission.                        *)
(***************************************************************************)
\* The default of runner's --threads flag, which GameMaster gets as
\* num_threads and every executor as max_workers
num_threads == 2
\* The number of agents a fan-out phase submits a call for
PoolSize == 3
Calls == 1..PoolSize

\* A call before it is submitted
NoCall == [st |-> "new", result |-> ""]

\* No phase is under way.  bids and votes count the appends of the phase to
\* Round.bids and Round.votes, tally is the set of voters of the appended
\* tally, logged counts the appends to the round's log, own is the set of
\* agents whose call wrote to its own agent.  finished lists the calls in the
\* order they ended, read the calls whose results went into the phase's map
\* and log, in that order, and reported is the call whose failure ended the
\* phase (0: none).
PoolIdle ==
    [phase |-> "none", at |-> "idle", next |-> 1,
     call |-> [c \in Calls |-> NoCall],
     exc |-> FALSE, joined |-> FALSE,
     bids |-> 0, votes |-> 0, tally |-> {}, logged |-> 0, own |-> {},
     finished |-> <<>>, read |-> <<>>, reported |-> 0]

\* What the future of a call can hold: _get_bid turns a bid of None into a
\* ValueError; vote and summarize return None as a result.
CallOutcomes(phase) ==
    IF phase = "bid" THEN {"value", Raises} ELSE {"value", NoResult, Raises}

InFlight(p) == \E c \in Calls : p.call[c].st \in {"queued", "running"}
AllDone(p) == \A c \in Calls : p.call[c].st = "done" /\ p.call[c].result # ""

\* A variant of the executor's shutdown that does not wait for its calls
NoWait(p) == TRUE

\* ThreadPoolExecutor.__exit__ is shutdown(wait=True): it returns when the
\* calls submitted have run, the queued ones included.
Shutdown(p) == AllDone(p)

\* A fan-out phase is entered: the previous phase has returned, or the run is
\* new or was saved and resumed.  `with ThreadPoolExecutor(...) as executor`
PoolEnter ==
    /\ pool.at \in {"idle", "returned", "saved"}
    /\ \E phase \in {"bid", "vote", "summary"} :
          pool' = [PoolIdle EXCEPT !.phase = phase, !.at = "submit"]
    /\ UNCHANGED <<gen, gameVars>>

\* executor.submit for the next agent of the roster, in the dict comprehension
PoolSubmit ==
    /\ pool.at = "submit"
    /\ LET c == CHOOSE c \in Calls :
                   pool.call[c].st = "new" /\ \A d \in 1..(c - 1) : pool.call[d].st # "new"
       IN  pool' = [pool EXCEPT !.call[c].st = "queued",
                                !.at = IF c = PoolSize THEN "read" ELSE "submit"]
    /\ UNCHANGED <<gen, gameVars>>

\* A thread of the executor takes the oldest queued call; at most num_threads
\* calls run at a time.
CallStart(c) ==
    /\ pool.call[c].st = "queued"
    /\ \A d \in 1..(c - 1) : pool.call[d].st # "queued"
    /\ Cardinality({d \in Calls : pool.call[d].st = "running"}) < num_threads
    /\ pool' = [pool EXCEPT !.call[c].st = "running"]
    /\ UNCHANGED <<gen, gameVars>>

\* A call ends: _get_bid with Player.bid, Player.vote or Player.summarize.
\* With a value it has written to its own agent only (bidding_rationale, an
\* observation); the outcome goes into its future.
CallFinish(c) ==
    /\ pool.call[c].st = "running"
    /\ \E result \in CallOutcomes(pool.phase) :
          pool' = [pool EXCEPT !.call[c] = [st |-> "done", result |-> result],
                               !.own = IF result = "value" THEN @ \cup {c} ELSE @,
                               !.finished = Append(@, c)]
    /\ UNCHANGED <<gen, gameVars>>

\* A variant of the loop that takes the results as the calls end
\* (concurrent.futures.as_completed)
AsCompleted(p) ==
    LET unread == Calls \ {p.read[i] : i \in 1..Len(p.read)}
        ended == {i \in 1..Len(p.finished) : p.finished[i] \in unread}
    IN  IF ended = {} THEN CHOOSE c \in unread : \A d \in unread : c <= d
        ELSE p.finished[CHOOSE i \in ended : \A j \in ended : i <= j]

\* `for player_name, task in player_bids.items()`: the futures are read in
\* the order they were submitted, the order of the roster
NextRead(p) == p.next

\* task.result() for the next agent, in the loop inside the `with` block: it
\* waits for the call, raises what the call raised, and otherwise the loop
\* body runs.  run_voting appends the votes read so far when a vote is None
\* and raises; run_summaries appends each log it reads.
PoolRead ==
    /\ pool.at = "read"
    /\ pool.call[NextRead(pool)].st = "done"
    /\ LET c == NextRead(pool)
           result == pool.call[c].result
       IN  IF result = Raises
           THEN pool' = [pool EXCEPT !.exc = TRUE, !.at = "exit", !.reported = c]
           ELSE IF result = NoResult /\ pool.phase = "vote"
           THEN pool' = [pool EXCEPT !.votes = @ + 1,
                                     !.tally = 1..(pool.next - 1),
                                     !.logged = @ + 1,
                                     !.exc = TRUE, !.at = "exit", !.reported = c]
           ELSE pool' = [pool EXCEPT !.logged = IF pool.phase = "summary" THEN @ + 1 ELSE @,
                                     !.read = Append(@, c),
                                     !.next = @ + 1,
                                     !.at = IF pool.next = PoolSize THEN "exit" ELSE "read"]
    /\ UNCHANGED <<gen, gameVars>>

\* The `with` block is left, by the end of the loop or by an exception
PoolExit ==
    /\ pool.at = "exit"
    /\ Shutdown(pool)
    /\ pool' = [pool EXCEPT !.joined = TRUE,
                            !.at = IF pool.exc THEN "raised" ELSE "after"]
    /\ UNCHANGED <<gen, gameVars>>

\* After the `with` block: get_next_speaker appends the bids and their log;
\* run_voting returns and run_day_phase appends the tally and its log;
\* run_summaries returns.
PoolReturn ==
    /\ pool.at = "after"
    /\ pool' = [pool EXCEPT !.at = "returned",
                            !.bids = IF pool.phase = "bid" THEN @ + 1 ELSE @,
                            !.votes = IF pool.phase = "vote" THEN @ + 1 ELSE @,
                            !.tally = IF pool.phase = "vote" THEN Calls ELSE @,
                            !.logged = IF pool.phase = "summary" THEN @ ELSE @ + 1]
    /\ UNCHANGED <<gen, gameVars>>

\* The exception of the phase reaches runner: except clause and save_game
PoolSave ==
    /\ pool.at = "raised"
    /\ pool' = [pool EXCEPT !.at = "saved"]
    /\ UNCHANGED <<gen, gameVars>>

PoolNext ==
    \/ PoolEnter
    \/ PoolSubmit
    \/ \E c \in Calls : CallStart(c)
    \/ \E c \in Calls : CallFinish(c)
    \/ PoolRead
    \/ PoolExit
    \/ PoolReturn
    \/ PoolSave

Init ==
    /\ gen = GenIdle
    /\ pc = "run_game"
    /\ rounds = <<>>
    /\ logs = <<>>
    /\ winner = ""
    /\ error_message = ""
    /\ current_round_num = 0
    /\ observations = [n \in Names |-> <<>>]
    /\ gamestate = [n \in Names |-> GameView(0, Names, OtherWolf(n))]
    /\ previously_unmasked = EmptyMap
    /\ idx = 0
    /\ next_speaker = NoName
    /\ disk = [partial |-> FALSE, complete |-> FALSE, logs |-> FALSE,
               partial_from |-> 0, complete_from |-> 0, logs_from |-> 0, saves |-> 0]
    /\ resumes = 0
    /\ round_start = StartState({})
    /\ loaded = NoLoad
    /\ session = State(initialize_players(Shuffled))
    /\ pool = PoolIdle
    /\ synthetic_votes \in SyntheticVoteSettings

\* An exception leaves run_game: the frames of run_round and run_day_phase
\* are gone, and the run ends in runner's except clause.
Raise ==
    /\ pc' = "failed"
    /\ idx' = 0
    /\ next_speaker' = NoName

\* A variant of run_round in which every round starts with the whole cast
FullRoster(n, rs) == Names

\* run_round: the roster round n starts with, a copy of the roster of the
\* round before it
StartRoster(n, rs) == IF n = 0 THEN Names ELSE rs[n].players

\* A variant of run_game whose loop runs while there is a winner
WhileWinner(w) == w # ""

\* run_game: `while not self.state.winner`
LoopTest(w) == w = ""

\* run_game: the loop test holds; run_round up to the list of phases
StartRound ==
    /\ pc = "run_game"
    /\ LoopTest(winner)
    /\ LET players == StartRoster(current_round_num, rounds)
       IN  /\ rounds' = Append(rounds, [Round EXCEPT !.players = players])
           /\ round_start' = StartState(players)
    /\ logs' = Append(logs, RoundLog)
    /\ pc' = "eliminate"
    /\ loaded' = NoLoad
    /\ UNCHANGED <<synthetic_votes, pool, session, gen, winner, current_round_num, observations,
                   gamestate, previously_unmasked, idx, next_speaker, resumes>>
    /\ RunnerTail

\* run_game: the loop test fails, run_game returns the winner
ReturnWinner ==
    /\ pc = "run_game"
    /\ ~LoopTest(winner)
    /\ pc' = "finished"
    /\ UNCHANGED <<synthetic_votes, pool, session, gen, rounds, logs, winner, current_round_num,
                   observations, gamestate, previously_unmasked, idx, next_speaker,
                   resumes, round_start, loaded>>
    /\ RunnerTail

\* GameMaster.eliminate
Eliminate ==
    /\ pc = "eliminate"
    /\ LET werewolves_alive == WerewolfNames \cap this_round.players
       IN  IF werewolves_alive = {}
           THEN Raise /\ UNCHANGED <<rounds, logs, observations>>
           ELSE \E wolf \in werewolves_alive :
                \E eliminated \in DecisionOutcomes(EliminateOptions(gamestate[wolf], wolf)) :
                   IF eliminated = Raises
                   THEN Raise /\ UNCHANGED <<rounds, logs, observations>>
                   ELSE /\ logs' = WithLog([this_round_log EXCEPT !.eliminate = TRUE])
                        /\ IF eliminated # NoResult
                           THEN /\ rounds' = WithRound([this_round EXCEPT !.eliminated = eliminated])
                                /\ observations' =
                                      [n \in Names |->
                                          IF n \in werewolves_alive
                                          THEN AddObservation(observations[n], gamestate[n], "eliminate")
                                          ELSE observations[n]]
                                /\ pc' = "protect"
                                /\ UNCHANGED <<idx, next_speaker>>
                           ELSE Raise /\ UNCHANGED <<rounds, observations>>
    /\ UNCHANGED <<synthetic_votes, pool, session, gen, winner, current_round_num, gamestate,
                   previously_unmasked, resumes, round_start, loaded>>
    /\ RunnerTail

\* A variant of the test in which a role acts whether in the roster or not
AlwaysActs(name, players) == TRUE

\* GameMaster.protect and GameMaster.unmask return at once unless the role's
\* agent is in the roster
Acts(name, players) == name \in players

\* GameMaster.protect, Doctor.save
Protect ==
    /\ pc = "protect"
    /\ IF ~Acts(doctor, this_round.players)
       THEN /\ pc' = "unmask"
            /\ UNCHANGED <<rounds, logs, observations, idx, next_speaker>>
       ELSE \E protect \in DecisionOutcomes(ProtectOptions(gamestate[doctor])) :
               IF protect = Raises
               THEN Raise /\ UNCHANGED <<rounds, logs, observations>>
               ELSE /\ logs' = WithLog([this_round_log EXCEPT !.protect = TRUE])
                    /\ IF protect # NoResult
                       THEN /\ observations' =
                                  [observations EXCEPT ![doctor] =
                                      AddObservation(@, gamestate[doctor], "protect")]
                            /\ rounds' = WithRound([this_round EXCEPT !.protected = protect])
                            /\ pc' = "unmask"
                            /\ UNCHANGED <<idx, next_speaker>>
                       ELSE Raise /\ UNCHANGED <<rounds, observations>>
    /\ UNCHANGED <<synthetic_votes, pool, session, gen, winner, current_round_num, gamestate,
                   previously_unmasked, resumes, round_start, loaded>>
    /\ RunnerTail

\* A variant of the Seer's memory update that takes everybody for a Villager
RevealAsVillager(memory, player, role) ==
    [n \in DOMAIN memory \cup {player} |->
        IF n = player THEN VILLAGER ELSE memory[n]]

\* Seer.reveal_and_update: self.previously_unmasked[player] = role
Reveal(memory, player, role) ==
    [n \in DOMAIN memory \cup {player} |->
        IF n = player THEN role ELSE memory[n]]

\* GameMaster.unmask, Seer.unmask, Seer.reveal_and_update
Unmask ==
    /\ pc = "unmask"
    /\ IF ~Acts(seer, this_round.players)
       THEN /\ pc' = "resolve_night_phase"
            /\ UNCHANGED <<rounds, logs, observations, previously_unmasked, idx, next_speaker>>
       ELSE \E unmask \in DecisionOutcomes(
                              UnmaskOptions(gamestate[seer], seer, previously_unmasked)) :
               IF unmask = Raises
               THEN Raise /\ UNCHANGED <<rounds, logs, observations, previously_unmasked>>
               ELSE /\ logs' = WithLog([this_round_log EXCEPT !.investigate = TRUE])
                    /\ IF unmask # NoResult
                       THEN /\ rounds' = WithRound([this_round EXCEPT !.unmasked = unmask])
                            /\ observations' =
                                  [observations EXCEPT ![seer] =
                                      AddObservation(@, gamestate[seer], "investigate")]
                            /\ previously_unmasked' =
                                  Reveal(previously_unmasked, unmask, session.players[unmask])
                            /\ pc' = "resolve_night_phase"
                            /\ UNCHANGED <<idx, next_speaker>>
                       ELSE Raise /\ UNCHANGED <<rounds, observations, previously_unmasked>>
    /\ UNCHANGED <<synthetic_votes, pool, session, gen, winner, current_round_num, gamestate,
                   resumes, round_start, loaded>>
    /\ RunnerTail

\* The loop that ends resolve_night_phase and exile: for each name of the
\* roster in order, the name `removed` is taken out of the agent's view (when
\* remove holds) and the announcement is added to its observations.  The loop
\* stops at the first agent whose view raises.
ViewRaises(view, name) == view.kind # "GameView" \/ RemovePlayerRaises(view, name)

\* A variant of the loop that tells the removed agent too
AnnounceToRemoved(players, remove, removed, text) ==
    LET bad == {n \in players : remove /\ ViewRaises(gamestate[n], removed)}
        done == IF bad = {} THEN players ELSE Before(players, First(bad))
    IN  [raised |-> bad # {},
         gamestate |-> [n \in Names |->
                           IF n \in done /\ remove
                           THEN RemovePlayer(gamestate[n], removed)
                           ELSE gamestate[n]],
         observations |-> [n \in Names |->
                              IF n \in done \/ (remove /\ n = removed)
                              THEN AddObservation(observations[n], gamestate[n], text)
                              ELSE observations[n]]]

Announce(players, remove, removed, text) ==
    LET bad == {n \in players : remove /\ ViewRaises(gamestate[n], removed)}
        done == IF bad = {} THEN players ELSE Before(players, First(bad))
    IN  [raised |-> bad # {},
         gamestate |-> [n \in Names |->
                           IF n \in done /\ remove
                           THEN RemovePlayer(gamestate[n], removed)
                           ELSE gamestate[n]],
         observations |-> [n \in Names |->
                              IF n \in done
                              THEN AddObservation(observations[n], gamestate[n], text)
                              ELSE observations[n]]]

\* GameMaster.resolve_night_phase
ResolveNightPhase ==
    /\ pc = "resolve_night_phase"
    /\ IF this_round.eliminated # this_round.protected
          /\ this_round.eliminated \notin this_round.players
       THEN Raise /\ UNCHANGED <<rounds, gamestate, observations>>
       ELSE LET players == NightRoster(this_round)
                text == IF this_round.eliminated # this_round.protected
                        THEN "night_removed" ELSE "night_none"
                told == Announce(players, TRUE, this_round.eliminated, text)
            IN  /\ rounds' = WithRound([this_round EXCEPT !.players = players])
                /\ gamestate' = told.gamestate
                /\ observations' = told.observations
                /\ IF told.raised THEN Raise
                   ELSE pc' = "check_night" /\ UNCHANGED <<idx, next_speaker>>
    /\ UNCHANGED <<synthetic_votes, pool, session, gen, logs, winner, current_round_num,
                   previously_unmasked, resumes, round_start, loaded>>
    /\ RunnerTail

\* A variant of run_round's test that never ends the round early
NeverOver(w) == FALSE

\* run_round after each phase: `if self.state.winner:`
RoundOver(w) == w # ""

\* GameMaster.check_for_winner, then the test run_round makes after every
\* phase: with a winner the round is marked successful and run_round returns,
\* and run_game finishes its iteration.
CheckForWinner ==
    /\ pc \in {"check_night", "check_day"}
    /\ winner' = get_winner(this_round.players)
    /\ IF RoundOver(winner')
       THEN /\ rounds' = WithRound(Succeed(this_round))
            /\ gamestate' = NextRoundViews(this_round.players)
            /\ current_round_num' = current_round_num + 1
            /\ pc' = "run_game"
       ELSE /\ pc' = IF pc = "check_night" THEN "get_next_speaker" ELSE "run_summaries"
            /\ UNCHANGED <<rounds, gamestate, current_round_num>>
    /\ UNCHANGED <<synthetic_votes, pool, session, gen, logs, observations, previously_unmasked,
                   idx, next_speaker, resumes, round_start, loaded>>
    /\ RunnerTail

\* A variant of the bidders in which the previous speaker bids too
EveryoneBids(players, previous_speaker) == players

\* get_next_speaker: the agents a bid is submitted for
Bidders(players, previous_speaker) == players \ {previous_speaker}

\* GameMaster.get_next_speaker with GameMaster._get_bid and Player.bid: every
\* agent of the roster but the previous speaker bids.  A bid that is None, or
\* a bid call that raises, ends the phase with an exception before anything is
\* appended.  The tally of the previous turn's checkpoint is superseded here:
\* exile reads the tally of the last turn only.
GetNextSpeaker ==
    /\ pc = "get_next_speaker"
    /\ LET previous == this_round.debate
           bidders == Bidders(this_round.players, previous.speaker)
       IN  \/ /\ Raise
              /\ UNCHANGED <<rounds, logs>>
           \/ \E bids \in [bidders -> 0..MaxBid] :
                 /\ bidders # {}
                 /\ rounds' = WithRound([this_round EXCEPT
                                  !.bids = [len |-> @.len + 1, last |-> bids],
                                  !.debate = Heard(@), !.votes = Read(@)])
                 /\ logs' = WithLog([this_round_log EXCEPT !.bid = @ + 1])
                 /\ next_speaker' \in SpeakerPool(bids, previous)
                 /\ pc' = "debate"
                 /\ UNCHANGED idx
    /\ UNCHANGED <<synthetic_votes, pool, session, gen, winner, current_round_num, observations,
                   gamestate, previously_unmasked, resumes, round_start, loaded>>
    /\ RunnerTail

\* After the body of run_day_phase's loop: the next turn, or the phase is over
AfterTurn ==
    /\ idx' = IF idx + 1 < MAX_DEBATE_TURNS THEN idx + 1 ELSE 0
    /\ pc' = IF idx + 1 < MAX_DEBATE_TURNS THEN "get_next_speaker" ELSE "exile"
    /\ next_speaker' = NoName

\* A variant of the test in which only the flag decides
OnlyWhenSynthetic(i, synthetic) == synthetic

\* run_day_phase: `if idx == MAX_DEBATE_TURNS - 1 or RUN_SYNTHETIC_VOTES:`
VotingCheckpoint(i, synthetic) == i = MAX_DEBATE_TURNS - 1 \/ synthetic

\* run_day_phase: the speaker's Player.debate, the append to the transcript
\* and the broadcast into the views of the roster.  The turn's bid map is
\* kept until its speaker has spoken.
Debate ==
    /\ pc = "debate"
    /\ \/ /\ Raise
          /\ UNCHANGED <<rounds, logs, gamestate>>
       \/ \E dialogue \in Dialogues :
             LET bad == {n \in this_round.players : gamestate[n].kind # "GameView"}
                 done == IF bad = {} THEN this_round.players
                         ELSE Before(this_round.players, First(bad))
             IN  /\ logs' = WithLog([this_round_log EXCEPT !.debate = @ + 1])
                 /\ rounds' = WithRound([this_round EXCEPT
                                  !.debate = [len |-> @.len + 1, speaker |-> next_speaker,
                                              dialogue |-> dialogue],
                                  !.bids = Read(@)])
                 /\ gamestate' = [n \in Names |->
                                     IF n \in done
                                     THEN UpdateDebate(gamestate[n], next_speaker, dialogue)
                                     ELSE gamestate[n]]
                 /\ IF bad # {} THEN Raise
                    ELSE IF VotingCheckpoint(idx, synthetic_votes)
                    THEN pc' = "run_voting" /\ UNCHANGED <<idx, next_speaker>>
                    ELSE AfterTurn
    /\ UNCHANGED <<synthetic_votes, pool, session, gen, winner, current_round_num, observations,
                   previously_unmasked, resumes, round_start, loaded>>
    /\ RunnerTail

\* Player.vote adds its observation only at the checkpoint after the last turn
VoteObserved(view, vote) ==
    vote \notin {NoResult, Raises} /\ view.debate = MAX_DEBATE_TURNS

\* What the vote calls of one checkpoint come to, per voter: every voter
\* answers with one of its choices, or one voter's call fails (None, or an
\* exception) while every other voter that has a choice takes its first.
VoteProfiles(players) ==
    LET choices(n) == Choices(VoteOptions(gamestate[n], n))
        first(n) == IF choices(n) = {} THEN NoResult ELSE First(choices(n))
    IN  {vote \in [players -> Names] : \A n \in players : vote[n] \in choices(n)}
        \cup {[n \in players |-> IF n = f THEN failure ELSE first(n)] :
                 f \in players, failure \in {NoResult, Raises}}

\* GameMaster.run_voting with Player.vote, and the two appends run_day_phase
\* makes when it returns.  Every vote call runs to its end; the results are
\* read in roster order, and the first that is None or raises ends the phase:
\* a None after the votes read so far have been appended as a tally.
RunVoting ==
    /\ pc = "run_voting"
    /\ \E vote \in VoteProfiles(this_round.players) :
          LET failed == {n \in this_round.players : vote[n] \in {NoResult, Raises}}
              read == IF failed = {} THEN this_round.players
                      ELSE Before(this_round.players, First(failed))
              votes == [n \in read |-> vote[n]]
          IN  /\ observations' =
                     [n \in Names |->
                         IF n \in this_round.players /\ VoteObserved(gamestate[n], vote[n])
                         THEN AddObservation(observations[n], gamestate[n], "vote")
                         ELSE observations[n]]
              /\ IF failed # {} /\ vote[First(failed)] = Raises
                 THEN UNCHANGED <<rounds, logs>>
                 ELSE /\ rounds' = WithRound([this_round EXCEPT
                                      !.votes = [len |-> @.len + 1, last |-> votes],
                                      !.debate = IF idx + 1 < MAX_DEBATE_TURNS
                                                 THEN @ ELSE Heard(@)])
                      /\ logs' = WithLog([this_round_log EXCEPT !.votes = @ + 1])
              /\ IF failed # {} THEN Raise ELSE AfterTurn
    /\ UNCHANGED <<synthetic_votes, pool, session, gen, winner, current_round_num, gamestate,
                   previously_unmasked, resumes, round_start, loaded>>
    /\ RunnerTail

\* GameMaster.exile
Exile ==
    /\ pc = "exile"
    /\ IF this_round.votes.len = 0 \/ DOMAIN this_round.votes.last = {}
       THEN Raise /\ UNCHANGED <<rounds, gamestate, observations>>
       ELSE LET top == MostCommon(this_round.votes.last)
                exiled == IF IsMajority(top.vote_count, this_round.players)
                          THEN top.most_voted ELSE this_round.exiled
            IN  IF exiled # NoName /\ exiled \notin this_round.players
                THEN /\ rounds' = WithRound([this_round EXCEPT !.exiled = exiled])
                     /\ Raise
                     /\ UNCHANGED <<gamestate, observations>>
                ELSE LET players == this_round.players \ {exiled}
                         told == Announce(players, exiled # NoName, exiled,
                                          IF exiled # NoName THEN "exiled" ELSE "not_exiled")
                     IN  /\ rounds' = WithRound([this_round EXCEPT !.exiled = exiled,
                                                                   !.players = players])
                         /\ gamestate' = told.gamestate
                         /\ observations' = told.observations
                         /\ IF told.raised THEN Raise
                            ELSE pc' = "check_day" /\ UNCHANGED <<idx, next_speaker>>
    /\ UNCHANGED <<synthetic_votes, pool, session, gen, logs, winner, current_round_num,
                   previously_unmasked, resumes, round_start, loaded>>
    /\ RunnerTail

\* The summarize calls the model lets end in an exception: those of the first
\* MaxBadSummaries agents of the roster; and in None: those of the first
\* MaxNoSummaries.
MaxBadSummaries == 1
MaxNoSummaries == 0

\* What the summarize calls of one round come to, per agent: a summary (added
\* to the observations), None (no summary in the result), or an exception
\* (the result has no get, the summary no strip, or generate raised).
SummaryProfiles(players) ==
    {summary \in [players -> {"summary", NoResult, Raises}] :
        \A n \in players :
            /\ summary[n] = Raises => Cardinality(Before(players, n)) < MaxBadSummaries
            /\ summary[n] = NoResult => Cardinality(Before(players, n)) < MaxNoSummaries}

\* GameMaster.run_summaries with Player.summarize, then the end of run_round
\* and of the iteration of run_game's loop.  The results are read in roster
\* order; an exception out of a call leaves run_summaries when it is read.
RunSummaries ==
    /\ pc = "run_summaries"
    /\ \E summary \in SummaryProfiles(this_round.players) :
          LET failed == {n \in this_round.players : summary[n] = Raises}
              read == IF failed = {} THEN this_round.players
                      ELSE Before(this_round.players, First(failed))
          IN  /\ observations' =
                     [n \in Names |->
                         IF n \in this_round.players /\ summary[n] = "summary"
                         THEN AddObservation(observations[n], gamestate[n], "summary")
                         ELSE observations[n]]
              /\ logs' = WithLog([this_round_log EXCEPT
                                     !.summaries = @ + Cardinality(read)])
              /\ IF failed # {}
                 THEN Raise /\ UNCHANGED <<rounds, gamestate, current_round_num>>
                 ELSE /\ rounds' = WithRound(Succeed(this_round))
                      /\ gamestate' = NextRoundViews(this_round.players)
                      /\ current_round_num' = current_round_num + 1
                      /\ pc' = "run_game"
                      /\ UNCHANGED <<idx, next_speaker>>
    /\ UNCHANGED <<synthetic_votes, pool, session, gen, winner, previously_unmasked, resumes,
                   round_start, loaded>>
    /\ RunnerTail

(***************************************************************************)
(* Run, save and resume: werewolf/runner.py, werewolf/logging.py           *)
(***************************************************************************)
\* o.startswith(f"Round {n}") for an observation "Round {m}: ...": the digits
\* of n begin the digits of m.
RECURSIVE DigitsPrefix(_, _)
DigitsPrefix(n, m) ==
    IF m = n THEN TRUE
    ELSE IF m < 10 THEN FALSE
    ELSE DigitsPrefix(n, m \div 10)
StartsWithRound(o, n) == DigitsPrefix(n, o.round)

\* A variant of list.pop() that leaves the list as it is
Whole(seq) == seq
\* The list after list.pop()
Front(seq) == SubSeq(seq, 1, Len(seq) - 1)
Last(seq) == seq[Len(seq)]

\* A variant of resume_game that drops the last round whatever its outcome
AlwaysDiscards(last_round) == TRUE

\* resume_game: `if not last_round.success`
Discards(last_round) == ~last_round.success

\* logging.load_game, and resume_game up to gm.run_game(): the last round and
\* its log are dropped when the round was not successful, the error is
\* cleared, and the views, observations and Seer memory of the agents of the
\* retained roster are rebuilt.  Every saved session has a round.
Resume ==
    /\ pc \in {"failed", "finished"}
    /\ resumes < MaxResumes
    /\ disk.logs /\ (disk.partial \/ disk.complete)
    /\ LET failed == Discards(Last(rounds))
           kept == IF failed THEN Front(rounds) ELSE rounds
           alive == IF kept = <<>> THEN Names ELSE Last(kept).players
           wolves == {n \in alive : Role(n) = WEREWOLF}
           partner(n) == IF n \in wolves /\ Cardinality(wolves) = 2
                         THEN CHOOSE w \in wolves : w # n ELSE NoName
           unmasking_history ==
               [n \in {kept[i].unmasked : i \in 1..Len(kept)} \ {NoName} |-> Role(n)]
       IN  /\ rounds' = kept
           /\ logs' = IF failed THEN Front(logs) ELSE logs
           /\ error_message' = ""
           /\ gamestate' = [n \in Names |->
                               IF n \in alive THEN GameView(Len(kept), alive, partner(n))
                               ELSE LoadedView]
           /\ observations' =
                 [n \in Names |->
                     IF kept = <<>> THEN <<>>
                     ELSE IF n \in alive
                     THEN SelectSeq(observations[n],
                                    LAMBDA o : ~StartsWithRound(o, Len(kept)))
                     ELSE observations[n]]
           /\ previously_unmasked' =
                 IF kept = <<>> THEN EmptyMap
                 ELSE IF seer \in alive THEN unmasking_history
                 ELSE previously_unmasked
           /\ current_round_num' = Len(kept)
           /\ loaded' = [fresh |-> TRUE, discarded |-> failed,
                         filtered |-> {n \in Names : observations'[n] # observations[n]}]
    /\ resumes' = resumes + 1
    /\ pc' = "run_game"
    /\ UNCHANGED <<synthetic_votes, pool, gen, winner, disk, idx, next_speaker, round_start>>
    /\ session' = State_from_json(to_dict(session))

Next ==
    \/ StartRound
    \/ ReturnWinner
    \/ Eliminate
    \/ Protect
    \/ Unmask
    \/ ResolveNightPhase
    \/ CheckForWinner
    \/ GetNextSpeaker
    \/ Debate
    \/ RunVoting
    \/ Exile
    \/ RunSummaries
    \/ Resume

Spec == Init /\ [][Next]_vars

\* The steps of one run of a fresh session: gm.run_game() and the runner's
\* lines after it.  A run is one thread of control, which takes its next step
\* when every decision call returns.
Play ==
    \/ StartRound
    \/ ReturnWinner
    \/ Eliminate
    \/ Protect
    \/ Unmask
    \/ ResolveNightPhase
    \/ CheckForWinner
    \/ GetNextSpeaker
    \/ Debate
    \/ RunVoting
    \/ Exile
    \/ RunSummaries

SpecRun == Init /\ [][Play]_vars /\ WF_vars(Play)

SpecGen == Init /\ [][GenNext]_vars

SpecPool == Init /\ [][PoolNext]_vars

(***************************************************************************)
(* Properties of the game (Spec)                                           *)
(***************************************************************************)
next_round == rounds'[current_round_num + 1]
Wolves(players) == Cardinality(players \cap WerewolfNames)
NonWolves(players) == Cardinality(players \ WerewolfNames)

\* C1: exile removes an agent iff the highest count of the last tally is more
\* than half of the roster; then the exiled agent has that count and leaves
\* the roster, otherwise exiled stays unset and the roster is unchanged.
ExileIffMajority ==
    [][pc = "exile" =>
          LET T == this_round.votes.last
              A == this_round.players
              top == Max({VoteCount(T, T[v]) : v \in DOMAIN T})
          IN  IF 2 * top > Cardinality(A)
              THEN /\ next_round.exiled \in A
                   /\ VoteCount(T, next_round.exiled) = top
                   /\ next_round.players = A \ {next_round.exiled}
              ELSE /\ next_round.exiled = NoName
                   /\ next_round.players = A
    ]_vars

ExiledByMajority ==
    /\ pc = "check_day"
    /\ this_round.exiled # NoName
    /\ this_round.exiled \notin this_round.players
    /\ 2 * VoteCount(this_round.votes.last, this_round.exiled)
          = Cardinality(this_round.players) + 2

Recorded ==
    CASE pc = "eliminate" -> next_round.eliminated # NoName
      [] pc = "protect" -> doctor \in this_round.players => next_round.protected # NoName
      [] pc = "unmask" -> seer \in this_round.players => next_round.unmasked # NoName
      [] pc = "get_next_speaker" -> next_round.bids.len = this_round.bids.len + 1
      [] pc = "debate" -> next_round.debate.len = this_round.debate.len + 1
      [] pc = "run_voting" ->
            /\ next_round.votes.len = this_round.votes.len + 1
            /\ DOMAIN next_round.votes.last = this_round.players
      [] OTHER -> TRUE

\* C5: when eliminate, protect, investigate, bidding, debate or voting ends
\* without its decision, the round stays unsuccessful, the error message is
\* set, the winner stays empty, the partial snapshot is written, and nothing
\* follows in that run: the only step after it is a resume.
FatalEscalation ==
    [][/\ ~Recorded =>
            /\ pc' = "failed"
            /\ Len(rounds') = Len(rounds)
            /\ ~next_round.success
            /\ error_message' # ""
            /\ winner' = ""
            /\ disk'.partial
       /\ pc = "failed" => (pc' = "run_game" /\ resumes' = resumes + 1)
    ]_vars

VoteFailedFatally ==
    /\ pc = "failed"
    /\ this_round.votes.len = 1
    /\ DOMAIN this_round.votes.last # this_round.players
    /\ error_message # ""
    /\ disk.partial

\* C6: a resume of a session whose last round is unsuccessful drops that
\* round and its log before any phase runs, and clears the error message.
ResumeDiscardsFailedRound ==
    [][(pc \in {"failed", "finished"} /\ pc' = "run_game" /\ ~Last(rounds).success) =>
          /\ Len(rounds') = Len(rounds) - 1
          /\ Len(logs') = Len(logs) - 1
          /\ Len(logs) = Len(rounds)
          /\ \A i \in 1..Len(rounds') : rounds'[i] = rounds[i]
          /\ current_round_num' = Len(rounds')
          /\ error_message # ""
          /\ error_message' = ""
    ]_vars

ResumedAfterFailedLaterRound ==
    /\ loaded.fresh
    /\ loaded.discarded
    /\ pc = "run_game"
    /\ Len(rounds) >= 1
    /\ Len(logs) = Len(rounds)
    /\ error_message = ""

\* The roster the next round starts with
NextRoster == IF rounds = <<>> THEN Names ELSE Last(rounds).players

\* C7: after the resume of a session whose last round failed, the roster, the
\* observations and views of its agents and the Seer's memory are what they
\* were when the failed round was started.
ResumeRestoresRoundStart ==
    (loaded.fresh /\ loaded.discarded) => StartState(NextRoster) = round_start

\* C8: resolve_night_phase leaves a subset of the roster, smaller by at most
\* one name.
NightResolveOnlyShrinks ==
    [][pc = "resolve_night_phase" =>
          /\ next_round.players \subseteq this_round.players
          /\ Cardinality(this_round.players) - Cardinality(next_round.players) <= 1
    ]_vars

NightTargetRemoved ==
    /\ pc = "check_night"
    /\ this_round.eliminated # this_round.protected
    /\ this_round.protected \in this_round.players
    /\ this_round.eliminated \notin this_round.players

\* C9: resolve_night_phase removes the target from the roster iff it is not
\* the protected name; when it is, nobody is removed and the saved agent stays
\* in the game for everybody: the views keep it.
SavedAgentStaysParticipant ==
    [][(pc = "resolve_night_phase" /\ pc' = "check_night") =>
          IF this_round.eliminated # this_round.protected
          THEN next_round.players = this_round.players \ {this_round.eliminated}
          ELSE /\ next_round.players = this_round.players
               /\ \A n \in this_round.players :
                     gamestate'[n].current_players = gamestate[n].current_players
    ]_vars

\* C10: the speaker get_next_speaker returns holds the maximum of the bid map
\* of the turn.
SpeakerHasMaxBid ==
    pc = "debate" =>
        /\ next_speaker \in DOMAIN this_round.bids.last
        /\ \A n \in DOMAIN this_round.bids.last :
              this_round.bids.last[n] <= this_round.bids.last[next_speaker]

SpeakerOutbidAfterUtterance ==
    /\ pc = "debate"
    /\ this_round.debate.len >= 1
    /\ \E n \in DOMAIN this_round.bids.last :
          this_round.bids.last[n] < this_round.bids.last[next_speaker]

\* C11: the targets revealed in the rounds the session holds (the retained
\* rounds and the one under way, also after a resume) are pairwise different,
\* and none of them is the Seer.
SeerNeverRepeats ==
    \A j \in 1..Len(rounds) :
        rounds[j].unmasked # NoName =>
            /\ rounds[j].unmasked # seer
            /\ \A i \in 1..(j - 1) : rounds[i].unmasked # rounds[j].unmasked

SeerRevealedAgainAfterResume ==
    /\ resumes = 1
    /\ pc = "resolve_night_phase"
    /\ Len(rounds) = 2
    /\ rounds[1].unmasked # NoName
    /\ rounds[2].unmasked # NoName
    /\ rounds[1].unmasked \in gamestate[seer].current_players

\* The positions that can follow a position of run_round while the round goes
\* on; the day phase is its turns of bidding, speaking and voting.
PhaseAfter(p) ==
    CASE p = "run_game" -> {"eliminate"}
      [] p = "eliminate" -> {"protect"}
      [] p = "protect" -> {"unmask"}
      [] p = "unmask" -> {"resolve_night_phase"}
      [] p = "resolve_night_phase" -> {"check_night"}
      [] p = "check_night" -> {"get_next_speaker"}
      [] p = "get_next_speaker" -> {"debate"}
      [] p = "debate" -> {"run_voting", "get_next_speaker", "exile"}
      [] p = "run_voting" -> {"get_next_speaker", "exile"}
      [] p = "exile" -> {"check_day"}
      [] p = "check_day" -> {"run_summaries"}
      [] p = "run_summaries" -> {"run_game"}
      [] OTHER -> {"run_game"}

WithRole(role) == {n \in DOMAIN session.players : session.players[n] = role}

\* C13: in every state, also after load and resume, the session has one Seer,
\* one Doctor, two Werewolves and otherwise Villagers, they are the agents
\* its role fields name, and the names of the session are those it was
\* created with, whatever the roster has lost.
SessionComposition ==
    /\ DOMAIN session.players = SeqSet(Shuffled)
    /\ WithRole(SEER) = {session.seer}
    /\ WithRole(DOCTOR) = {session.doctor}
    /\ WithRole(WEREWOLF) = SeqSet(session.werewolves)
    /\ Cardinality(WithRole(WEREWOLF)) = 2
    /\ WithRole(VILLAGER) = SeqSet(session.villagers)
    /\ WithRole(VILLAGER) =
          DOMAIN session.players \ (WithRole(WEREWOLF) \cup {session.seer, session.doctor})
    /\ Cardinality({session.seer, session.doctor} \cup WithRole(WEREWOLF)) = 4
    /\ \A n \in DOMAIN session.players : session.players[n] = Role(n)
    /\ DOMAIN gamestate = DOMAIN session.players
    /\ DOMAIN observations = DOMAIN session.players
    /\ \A i \in 1..Len(rounds) : rounds[i].players \subseteq DOMAIN session.players

LoadedWithSmallerRoster ==
    /\ loaded.fresh
    /\ pc = "run_game"
    /\ Len(rounds) >= 1
    /\ Cardinality(Last(rounds).players) < Cardinality(DOMAIN session.players)
    /\ \E n \in DOMAIN session.players : gamestate[n] = LoadedView

\* C14: the save that ends a run writes the partial snapshot iff the error
\* message is not empty and the complete snapshot otherwise; a save without
\* error leaves no partial snapshot; and after every save, of a run or of a
\* resume, failed or not, what load_game would read is from that save.
SnapshotKind ==
    [][(pc' = "failed" \/ pc' = "finished") =>
          /\ disk'.saves = disk.saves + 1
          /\ IF error_message' # ""
             THEN /\ disk'.partial
                  /\ disk'.partial_from = disk'.saves
                  /\ disk'.complete = disk.complete
                  /\ disk'.complete_from = disk.complete_from
             ELSE /\ ~disk'.partial
                  /\ disk'.complete
                  /\ disk'.complete_from = disk'.saves
          /\ load_game(disk').state = disk'.saves
          /\ load_game(disk').logs = disk'.saves
    ]_vars

CompletedAfterFailedRun ==
    /\ pc = "finished"
    /\ resumes = 1
    /\ ~loaded.fresh
    /\ error_message = ""
    /\ disk.saves = 2
    /\ ~disk.partial
    /\ disk.complete_from = 2

\* C15: when a round has been started, the view of every agent of its roster
\* has that roster, an empty transcript and the number of the round.
ViewsConsistentAtRoundStart ==
    pc = "eliminate" =>
        \A n \in this_round.players :
            /\ gamestate[n].kind = "GameView"
            /\ gamestate[n].current_players = this_round.players
            /\ gamestate[n].debate = 0
            /\ gamestate[n].round_number = current_round_num

\* C16: whenever the Doctor is about to protect, the options it offers are
\* exactly the agents of the round's roster, the Doctor among them.
ProtectOptionsAreRoster ==
    (pc = "protect" /\ doctor \in this_round.players) =>
        /\ ProtectOptions(gamestate[doctor]) = this_round.players
        /\ doctor \in ProtectOptions(gamestate[doctor])

\* C17: every tally appended to the vote list of a round has exactly one vote
\* of each agent of the roster, for an agent of the roster other than the
\* voter.
TalliesCompleteAndValid ==
    [][(pc = "run_voting" /\ next_round.votes.len = this_round.votes.len + 1) =>
          /\ DOMAIN next_round.votes.last = this_round.players
          /\ \A n \in DOMAIN next_round.votes.last :
                next_round.votes.last[n] \in this_round.players \ {n}
    ]_vars

\* C18: whatever the summarize calls come to, the summaries phase completes:
\* the round is marked successful and its iteration ends, no error is set,
\* and the roster, the winner and the other fields of the round stay as they
\* were.
SummariesNeverFailRound ==
    [][pc = "run_summaries" =>
          /\ pc' = "run_game"
          /\ error_message' = ""
          /\ winner' = winner
          /\ next_round = Succeed(this_round)
    ]_vars

\* C21: a round becomes successful only in the step that ends it without an
\* exception, a winner check that finds a winner or the summaries; every
\* round but the last is successful; and there are as many round logs as
\* rounds.
RoundSuccessFlag ==
    [][/\ \A i \in 1..Len(rounds') :
             (rounds'[i].success /\ (i > Len(rounds) \/ ~rounds[i].success)) =>
                 /\ i = Len(rounds')
                 /\ Len(rounds') = Len(rounds)
                 /\ pc' = "run_game"
                 /\ \/ pc = "run_summaries"
                    \/ (pc = "check_night" \/ pc = "check_day") /\ winner' # ""
       /\ \A i \in 1..(Len(rounds') - 1) : rounds'[i].success
       /\ Len(logs') = Len(rounds')
    ]_vars

LaterRoundFailed ==
    /\ pc = "failed"
    /\ Len(rounds) = 2
    /\ Len(logs) = 2
    /\ rounds[1].success
    /\ ~rounds[2].success

DayDebateShape ==
    [][(pc' = "exile" /\ pc # "exile") =>
          /\ pc = "run_voting"
          /\ idx = MAX_DEBATE_TURNS - 1
          /\ this_round.debate.len = MAX_DEBATE_TURNS
          /\ next_round.debate.len = MAX_DEBATE_TURNS
          /\ next_round.bids.len = MAX_DEBATE_TURNS
          /\ next_round.votes.len = this_round.votes.len + 1
          /\ next_round.votes.len = IF synthetic_votes THEN MAX_DEBATE_TURNS ELSE 1
          /\ DOMAIN next_round.votes.last = this_round.players
          /\ \A n \in this_round.players : gamestate[n].debate = MAX_DEBATE_TURNS
    ]_vars

DebateDoneWithOneTally ==
    /\ pc = "exile"
    /\ ~synthetic_votes
    /\ this_round.debate.len = MAX_DEBATE_TURNS
    /\ this_round.votes.len = 1
    /\ DOMAIN this_round.votes.last = this_round.players

\* C24: the name eliminate records is an agent of the roster that is not a
\* Werewolf, neither the one that chose nor its partner, in every round, also
\* in the rounds run after a resume.
NightTargetNeverWerewolf ==
    [][(pc = "eliminate" /\ next_round.eliminated # NoName) =>
          /\ this_round.eliminated = NoName
          /\ next_round.eliminated \in this_round.players
          /\ next_round.eliminated \notin WerewolfNames
          /\ Role(next_round.eliminated) # WEREWOLF
    ]_vars

TargetChosenAfterResume ==
    /\ resumes = 1
    /\ pc = "protect"
    /\ ~loaded.fresh
    /\ this_round.eliminated \in this_round.players \ WerewolfNames
    /\ WerewolfNames \subseteq this_round.players

\* C25: a debate turn that completes appends its utterance to the round's
\* transcript and to the view of every agent of the roster and to nobody's
\* observations; through the day phase the view transcript of every agent of
\* the roster is as long as the round's (both are appended to together and
\* only then).
DebateBroadcastRoundScoped ==
    [][/\ pc = "debate" => observations' = observations
       /\ (pc = "debate" /\ pc' # "failed") =>
             next_round.debate.len = this_round.debate.len + 1
       /\ (pc' = "get_next_speaker" \/ pc' = "debate" \/ pc' = "run_voting" \/ pc' = "exile") =>
             \A n \in next_round.players :
                 /\ gamestate'[n].kind = "GameView"
                 /\ gamestate'[n].debate = next_round.debate.len
    ]_vars

SecondUtteranceBroadcast ==
    /\ pc = "run_voting"
    /\ this_round.debate.len = 2
    /\ this_round.debate.speaker \in this_round.players
    /\ this_round.debate.dialogue # {}
    /\ \A n \in this_round.players : gamestate[n].debate = 2

\* C26: with the Doctor out of the roster protect makes no call (no log, no
\* observation), protected stays unset and the night's target is removed;
\* with the Seer out of the roster unmask makes no call and unmasked stays
\* unset; a Doctor or Seer that is the target of the night is still in the
\* roster at its phase and makes its call.
NightRolesSkippedOnceRemoved ==
    [][/\ (pc = "protect" /\ doctor \notin this_round.players) =>
             /\ pc' = "unmask"
             /\ rounds' = rounds /\ logs' = logs /\ observations' = observations
       /\ (pc = "unmask" /\ seer \notin this_round.players) =>
             /\ pc' = "resolve_night_phase"
             /\ rounds' = rounds /\ logs' = logs /\ observations' = observations
             /\ previously_unmasked' = previously_unmasked
       /\ (pc = "resolve_night_phase" /\ doctor \notin this_round.players) =>
             /\ this_round.protected = NoName
             /\ ~this_round_log.protect
             /\ this_round.eliminated \in this_round.players
             /\ next_round.players = this_round.players \ {this_round.eliminated}
       /\ (pc = "resolve_night_phase" /\ seer \notin this_round.players) =>
             /\ this_round.unmasked = NoName
             /\ ~this_round_log.investigate
       /\ (pc = "protect" /\ this_round.eliminated = doctor /\ pc' = "unmask") =>
             /\ next_round.protected \in ProtectOptions(gamestate[doctor])
             /\ logs'[current_round_num + 1].protect
       /\ (pc = "unmask" /\ this_round.eliminated = seer /\ pc' = "resolve_night_phase") =>
             /\ next_round.unmasked \in UnmaskOptions(gamestate[seer], seer, previously_unmasked)
             /\ logs'[current_round_num + 1].investigate
    ]_vars

NightWithoutDoctor ==
    /\ pc = "check_night"
    /\ current_round_num >= 1
    /\ doctor \notin rounds[current_round_num].players
    /\ this_round.protected = NoName
    /\ this_round.eliminated # NoName
    /\ this_round.eliminated \notin this_round.players

\* C27: an investigate that returns a target adds to the Seer's memory that
\* name with the role the session gives the agent, changes no other entry,
\* and adds one observation to the Seer and none to anybody else; a resume
\* leaves in the memory exactly the targets unmasked in the retained rounds,
\* with their roles.
SeerMemoryTruthful ==
    [][/\ (pc = "unmask" /\ next_round.unmasked # NoName) =>
             LET target == next_round.unmasked
             IN  /\ target \notin DOMAIN previously_unmasked
                 /\ DOMAIN previously_unmasked' = DOMAIN previously_unmasked \cup {target}
                 /\ previously_unmasked'[target] = session.players[target]
                 /\ previously_unmasked'[target] = Role(target)
                 /\ \A n \in DOMAIN previously_unmasked :
                       previously_unmasked'[n] = previously_unmasked[n]
                 /\ Front(observations'[seer]) = observations[seer]
                 /\ Last(observations'[seer]) = Observation(current_round_num, "investigate")
                 /\ \A n \in Names \ {seer} : observations'[n] = observations[n]
       /\ (pc # "unmask" /\ pc # "failed" /\ pc # "finished") =>
             previously_unmasked' = previously_unmasked
       /\ ((pc = "failed" \/ pc = "finished") /\ pc' = "run_game") =>
             /\ DOMAIN previously_unmasked' =
                   {rounds'[i].unmasked : i \in 1..Len(rounds')} \ {NoName}
             /\ \A n \in DOMAIN previously_unmasked' :
                   previously_unmasked'[n] = session'.players[n]
    ]_vars

MemoryRebuiltAfterDiscard ==
    /\ loaded.fresh
    /\ loaded.discarded
    /\ pc = "run_game"
    /\ Len(rounds) = 1
    /\ rounds[1].unmasked # NoName
    /\ DOMAIN previously_unmasked = {rounds[1].unmasked}
    /\ Cardinality(DOMAIN round_start.previously_unmasked) = 1

\* The roster the round before round k (counted from 1) ended with
RosterBefore(k) == IF k = 1 THEN Names ELSE rounds[k - 1].players
\* The names round k has lost since it started
LostIn(k) == RosterBefore(k) \ rounds[k].players
\* Round k removed its night target
NightRemoved(k) ==
    /\ rounds[k].eliminated # NoName
    /\ rounds[k].eliminated # rounds[k].protected
    /\ rounds[k].eliminated \notin rounds[k].players

\* C29: every round starts with the roster the round before it ended with
\* (the first with the whole cast); within a round the roster gains no name
\* and loses at most two, at most one in resolve_night_phase and at most one
\* in exile, and the exiled agent is not the agent removed that night.
RosterMonotone ==
    /\ [](\A k \in 1..Len(rounds) :
             /\ rounds[k].players \subseteq RosterBefore(k)
             /\ Cardinality(LostIn(k)) <= 2
             /\ LostIn(k) \subseteq {rounds[k].eliminated, rounds[k].exiled}
             /\ NightRemoved(k) => rounds[k].exiled # rounds[k].eliminated)
    /\ [][/\ Len(rounds') = Len(rounds) + 1
             => Last(rounds').players = NextRoster
          /\ \A k \in 1..Len(rounds) :
                k <= Len(rounds')
                   => /\ rounds'[k].players \subseteq rounds[k].players
                      /\ Cardinality(rounds[k].players \ rounds'[k].players) <= 1
                      /\ rounds'[k].players # rounds[k].players
                            => /\ k = current_round_num + 1
                               /\ (pc = "resolve_night_phase" \/ pc = "exile")
         ]_vars

\* The second round has lost its night target and an exiled agent
SecondRoundLostTwo ==
    /\ Len(rounds) = 2
    /\ NightRemoved(2)
    /\ rounds[2].exiled # NoName
    /\ rounds[2].exiled \notin rounds[2].players
    /\ Cardinality(LostIn(2)) = 2
    /\ Cardinality(LostIn(1)) = 1

\* The roster a step of the game leaves
RosterAfter == IF rounds' = <<>> THEN Names ELSE Last(rounds').players
\* The list after is the list before with entries added at its end
Extends(after, before) ==
    /\ Len(after) >= Len(before)
    /\ SubSeq(after, 1, Len(before)) = before

\* C30: in every step of the game other than a resume each agent's
\* observations change only by entries added at the end; an agent that is
\* not in the roster keeps its observations and its view, the Seer's memory
\* stays as it is once the Seer is out, and the protected agent, the unmasked
\* agent, the bids, the speaker and the votes a phase records come from
\* agents of the roster.
ObservationsAccumulateAndFreeze ==
    [][(pc # "failed" /\ pc # "finished") =>
          /\ \A n \in Names : Extends(observations'[n], observations[n])
          /\ \A n \in Names \ RosterAfter :
                /\ observations'[n] = observations[n]
                /\ gamestate'[n] = gamestate[n]
          /\ seer \notin RosterAfter => previously_unmasked' = previously_unmasked
          /\ pc # "run_game" =>
                /\ next_round.eliminated # this_round.eliminated
                      => this_round.players \cap WerewolfNames # {}
                /\ next_round.protected # this_round.protected
                      => doctor \in this_round.players
                /\ next_round.unmasked # this_round.unmasked
                      => seer \in this_round.players
                /\ next_round.bids.len > this_round.bids.len
                      => DOMAIN next_round.bids.last \subseteq this_round.players
                /\ next_round.debate.len > this_round.debate.len
                      => next_round.debate.speaker \in this_round.players
                /\ next_round.votes.len > this_round.votes.len
                      => DOMAIN next_round.votes.last \subseteq this_round.players
      ]_vars

\* A round is under way in which an agent removed in an earlier round has
\* observations and the roster's agents have spoken and been told more since
RemovedAgentLeftBehind ==
    /\ Len(rounds) = 2
    /\ pc = "run_voting"
    /\ \E n \in Names \ rounds[1].players :
          /\ observations[n] # <<>>
          /\ \A m \in rounds[2].players :
                Len(observations[m]) > Len(observations[n])

\* The option lists the decision of the coming phase is offered
OfferedOptions ==
    CASE pc = "eliminate" ->
            {EliminateOptions(gamestate[wolf], wolf) :
                wolf \in WerewolfNames \cap this_round.players}
      [] pc = "protect" /\ Acts(doctor, this_round.players) ->
            {ProtectOptions(gamestate[doctor])}
      [] pc = "unmask" /\ Acts(seer, this_round.players) ->
            {UnmaskOptions(gamestate[seer], seer, previously_unmasked)}
      [] pc = "run_voting" ->
            {VoteOptions(gamestate[n], n) : n \in this_round.players}
      [] OTHER -> {}

\* C32: the option list offered to the eliminating Werewolf, to the Doctor,
\* to the Seer and to each voter names at least one agent, in every state.
OptionSetsNeverEmpty == {} \notin OfferedOptions

\* The run is over: gm.run_game() returned or raised, and the session is saved
Stopped == pc = "failed" \/ pc = "finished"

\* C33: from every state of a run whose decision calls all return, the game
\* loop comes to a stop, and it stops with a winner or with an error message;
\* that includes the runs in which the Doctor saves the target every night and
\* no vote reaches a majority.
EveryGameHalts ==
    /\ [](Stopped => (winner # "" \/ error_message # ""))
    /\ (~Stopped) ~> Stopped

\* A run has stopped in its second round, after a round in which the Doctor
\* saved the target and the vote reached no majority
StoppedAfterQuietRound ==
    /\ Stopped
    /\ Len(rounds) = 2
    /\ rounds[1].success
    /\ rounds[1].eliminated = rounds[1].protected
    /\ rounds[1].votes.len > 0
    /\ rounds[1].exiled = NoName
    /\ rounds[1].players = Names

\* The names with the highest count of a tally: Counter.most_common(1) gives
\* the one of them the order of the mapping meets first
Leaders(votes) ==
    LET voted == {votes[v] : v \in DOMAIN votes}
    IN  {n \in voted : \A m \in voted : VoteCount(votes, m) <= VoteCount(votes, n)}
\* What exile decides when the order of the tally makes this leader the first
ExiledFor(leader) ==
    IF IsMajority(VoteCount(this_round.votes.last, leader), this_round.players)
    THEN leader ELSE this_round.exiled

\* C34: exile gives the same exiled agent and the same roster whichever of
\* the leaders of the tally the order of the vote mapping puts first; when two
\* or more agents share the highest count nobody is exiled.
ExileIndependentOfTieBreak ==
    [][(pc = "exile" /\ this_round.votes.len > 0 /\ DOMAIN this_round.votes.last # {}) =>
          /\ \A leader \in Leaders(this_round.votes.last) :
                /\ next_round.exiled = ExiledFor(leader)
                /\ next_round.players = this_round.players \ {ExiledFor(leader)}
          /\ Cardinality(Leaders(this_round.votes.last)) >= 2 =>
                /\ next_round.exiled = NoName
                /\ next_round.players = this_round.players
      ]_vars

\* exile has run on a tally with two leaders
TiedTallyExilesNobody ==
    /\ pc = "check_day"
    /\ DOMAIN this_round.votes.last = this_round.players
    /\ Cardinality(Leaders(this_round.votes.last)) >= 2
    /\ this_round.exiled = NoName

\* The roster of the round under way or just over, and its agents' views
Roster == IF rounds = <<>> THEN Names ELSE Last(rounds).players
ViewOf(n) == gamestate[n].current_players
\* The agent exile is about to remove, if any
ToBeExiled ==
    LET top == MostCommon(this_round.votes.last)
    IN  IF IsMajority(top.vote_count, this_round.players) THEN top.most_voted
        ELSE NoName

\* C35: the views of the agents of the roster name the same agents, all of
\* them of the roster; the name resolve_night_phase and exile take out of the
\* views is in every view it is taken from; and every night target and every
\* vote is for an agent of the roster.
ViewRemovalsNeverFail ==
    /\ \A n \in Roster :
          /\ gamestate[n].kind = "GameView"
          /\ ViewOf(n) \subseteq Roster
          /\ \A m \in Roster : ViewOf(m) = ViewOf(n)
    /\ pc = "resolve_night_phase" =>
          /\ this_round.eliminated \in this_round.players
          /\ \A n \in NightRoster(this_round) : this_round.eliminated \in ViewOf(n)
    /\ (pc = "exile" /\ DOMAIN this_round.votes.last # {}) =>
          /\ \A v \in DOMAIN this_round.votes.last :
                this_round.votes.last[v] \in this_round.players
          /\ ToBeExiled # NoName =>
                \A n \in this_round.players \ {ToBeExiled} : ToBeExiled \in ViewOf(n)

\* In the second round the night's target has been taken out of views that
\* had already lost an agent of the roster
RemovedFromShrunkViews ==
    /\ Len(rounds) = 2
    /\ pc = "check_night"
    /\ NightRemoved(2)
    /\ \A n \in Roster : ViewOf(n) # Roster /\ rounds[2].eliminated \notin ViewOf(n)

\* Neither side has won with this roster
Undecided(players) == Wolves(players) >= 1 /\ NonWolves(players) > Wolves(players)

\* C36: when eliminate is about to run, in a fresh and in a resumed game, a
\* Werewolf is in the roster and the other agents of the roster outnumber the
\* Werewolves; the roster has at least three agents at every bidding and
\* voting step.
RoundStartsUndecided ==
    /\ pc = "eliminate" => Undecided(this_round.players)
    /\ (pc = "get_next_speaker" \/ pc = "debate" \/ pc = "run_voting") =>
          /\ Undecided(this_round.players)
          /\ Cardinality(this_round.players) >= 3

\* After a resume the second round is started again, one Werewolf left
ResumedRoundStartsUndecided ==
    /\ pc = "eliminate"
    /\ resumes = 1
    /\ current_round_num = 1
    /\ Wolves(this_round.players) = 1

\* The entries a step has added to the end of an agent's observations
Added(n) == SubSeq(observations'[n], Len(observations[n]) + 1, Len(observations'[n]))
\* The entries of a list with a tag other than k, in order
NotOfRound(obs, k) == SelectSeq(obs, LAMBDA o : o.round # k)

\* C38: every observation added while round n is under way carries the tag n,
\* in a fresh game and after a resume, and no observation carries a tag above
\* the number of the current round; so the filter of resume_game takes out
\* of the lists of the retained roster the observations of the round it
\* discarded, all of them and no others.
ObservationsCarryRoundTag ==
    /\ [](\A n \in Names : \A i \in 1..Len(observations[n]) :
             observations[n][i].round <= current_round_num)
    /\ [][/\ ~Stopped =>
                \A n \in Names : \A i \in 1..Len(Added(n)) :
                    Added(n)[i].round = current_round_num
          /\ Stopped =>
                \A n \in Roster' :
                    observations'[n] =
                        IF Len(rounds') < Len(rounds)
                        THEN NotOfRound(observations[n], Len(rounds'))
                        ELSE observations[n]
         ]_vars

\* A resume has discarded the second round and taken observations of it out
\* of every list of the retained roster, which keep those of the first round
FilterRemovedFailedRound ==
    /\ loaded.fresh
    /\ loaded.discarded
    /\ current_round_num = 1
    /\ loaded.filtered = Roster
    /\ \A n \in Roster : observations[n] # <<>>

\* C39: a resume of a session whose last round was successful drops no
\* round and no log entry and keeps the winner; when the session has a winner
\* the resumed run executes no phase: its only step returns from run_game
\* with the rounds and the winner as they were and saves the session as the
\* complete snapshot, leaving no partial one.
ResumeWithNothingToRedo ==
    [][/\ (Stopped /\ Last(rounds).success) =>
             /\ rounds' = rounds
             /\ logs' = logs
             /\ winner' = winner
             /\ pc' = "run_game"
       /\ (pc = "run_game" /\ loaded.fresh /\ winner # "") =>
             /\ pc' = "finished"
             /\ rounds' = rounds
             /\ logs' = logs
             /\ winner' = winner
             /\ error_message' = ""
             /\ disk'.complete /\ ~disk'.partial
             /\ disk'.saves = disk.saves + 1
             /\ disk'.complete_from = disk'.saves
      ]_vars

\* A finished session has been resumed and saved again
FinishedSessionResumed ==
    /\ pc = "finished"
    /\ resumes = 1
    /\ loaded.fresh
    /\ ~loaded.discarded
    /\ winner # ""
    /\ disk.saves = 2
    /\ disk.complete_from = 2

(***************************************************************************)
(* Properties of the fan-out phases (SpecPool)                             *)
(***************************************************************************)
\* C19: the bid list and the vote list of the round are appended to only
\* after the `with` block of the phase is left, every call having ended, on
\* the normal path and on the failure path; a step of a call leaves the lists
\* and the round's log as they are.
AggregatesWrittenAfterJoin ==
    [][/\ (pool'.bids # pool.bids \/ pool'.votes # pool.votes) =>
             (pool'.phase = pool.phase => (pool.joined /\ AllDone(pool)))
       /\ (pool'.phase = pool.phase /\ pool'.own # pool.own) =>
             /\ pool'.bids = pool.bids
             /\ pool'.votes = pool.votes
             /\ pool'.logged = pool.logged
    ]_vars

\* C20: a fan-out phase returns, or lets its exception out, only when every
\* call it submitted has run to its end; no later phase is entered and
\* nothing is saved while a call is in flight; the calls submitted next to a
\* call that failed are run, none is dropped.
PhaseBarrier ==
    [][/\ (pool.at = "exit" /\ pool'.at # "exit") => AllDone(pool)
       /\ pool'.at \in {"after", "returned", "raised", "saved"} => AllDone(pool')
       /\ pool'.at = "saved" => ~InFlight(pool)
       /\ (pool.at # "submit" /\ pool'.at = "submit") => ~InFlight(pool)
    ]_vars

FailedVoteSiblingsAwaited ==
    /\ pool.phase = "vote"
    /\ pool.at = "saved"
    /\ pool.call[1].result = NoResult
    /\ \A c \in Calls \ {1} : pool.call[c].result = "value"
    /\ pool.own = Calls \ {1}

\* The call's result ends the phase that reads it
Failing(c) ==
    \/ pool.call[c].result = Raises
    \/ pool.call[c].result = NoResult /\ pool.phase = "vote"
\* What the phase comes to, given the results of its calls alone: the calls
\* that go into its map and log, in order, and the call whose failure is
\* reported
ByRoster ==
    LET failing == {c \in Calls : Failing(c)}
        first == IF failing = {} THEN 0
                 ELSE CHOOSE c \in failing : \A d \in failing : c <= d
        last == IF first = 0 THEN PoolSize ELSE first - 1
    IN  [read |-> [i \in 1..last |-> i], reported |-> first]

\* C37: once a bidding or voting phase has left its `with` block, the calls
\* whose results make up its map and its log, their order, and the call whose
\* failure is reported are determined by the results of the calls, in roster
\* order, whatever the order in which the calls ended.
FanOutIndependentOfInterleaving ==
    (pool.joined /\ (pool.phase = "bid" \/ pool.phase = "vote")) =>
        /\ pool.read = ByRoster.read
        /\ pool.reported = ByRoster.reported
        /\ pool.exc <=> pool.reported # 0

\* A vote phase has ended in which the second call failed first and the
\* failure of the first call is the one reported
SecondFailedFirst ==
    /\ pool.phase = "vote"
    /\ pool.at = "saved"
    /\ pool.finished = <<2, 1, 3>>
    /\ Failing(1) /\ Failing(2)
    /\ pool.reported = 1

(***************************************************************************)
(* Properties of the decision gateway (SpecGen)                            *)
(***************************************************************************)
\* A text neither YAML nor JSON can parse
Unparsable(resp) == resp \in Texts /\ yaml_safe_load(resp.body).err # ""
GenDone == gen.pc \in {"returned", "raised"}

\* C3: when every text the backend returned during a call is unparsable,
\* generate returns None after exactly RETRIES backend invocations and does
\* not raise, whether or not allowed_values and result_key are given.
UnparsableGivesNoResultAfterRetries ==
    (GenDone /\ \A i \in 1..Len(gen.backend) : Unparsable(gen.backend[i]))
        => (gen.pc = "returned" /\ gen.result = None /\ gen.attempt = RETRIES)

\* An attempt of generate failed: nothing was returned from it.
AllAttemptsFailed == GenDone /\ Len(gen.raw_responses) = RETRIES

\* C4: after RETRIES failed attempts (backend exception, unparsable output,
\* or a value outside allowed_values) generate returns None with a log whose
\* raw_resp is the join of the failed attempts' raw outputs; it does not raise.
ExhaustionReturnsJoinedRawOutputs ==
    AllAttemptsFailed
        => /\ gen.pc = "returned"
           /\ gen.result = None
           /\ gen.log # None
           /\ gen.log.raw_resp = [t |-> "joined", parts |-> gen.raw_responses]

\* What generate's loop body does with the text of invocation i of this call
TryOf(i) == GenerateTry(gen.backend[i], gen.call.allowed_given,
                        gen.call.allowed_values, gen.call.result_key)

\* C28: generate invokes the backend at most RETRIES (3) times per call and
\* never after an attempt that was accepted; when allowed_values is given, a
\* returned value other than None is one of allowed_values, and the returned
\* log holds the raw output of the accepted attempt and what it parsed to.
GatewayValidatesAndReturnsEarly ==
    /\ Len(gen.backend) <= RETRIES
    /\ \A i \in 1..(Len(gen.backend) - 1) : ~TryOf(i).ret
    /\ (gen.pc = "returned" /\ gen.call.allowed_given /\ gen.result # None)
          => /\ gen.result.t = "str"
             /\ gen.result.s \in gen.call.allowed_values
             /\ gen.log # None
             /\ gen.log.raw_resp = gen.backend[Len(gen.backend)]
             /\ gen.log.result = parse_json(gen.backend[Len(gen.backend)]).val

\* An allowed value is returned at the second invocation, after a rejected one
AllowedValueAfterOneRetry ==
    /\ gen.pc = "returned"
    /\ gen.call.allowed_given
    /\ gen.result = PyStr("Derek")
    /\ Len(gen.backend) = 2
    /\ gen.backend[1] \in Texts
    /\ parse_json(gen.backend[1]).val # None

\* The temperatures of the invocations of this call
Temperature(k) == gen.temperatures[k]
Invocations == 1..Len(gen.temperatures)
OptionsOffered == gen.call.allowed_given /\ gen.call.allowed_values # {}

\* C31 as stated: every option-restricted call runs at 0.5, 0.7, 0.9 and every
\* free-text call at 1.0, 1.0, 1.0.
TemperaturesAsListed ==
    \A k \in Invocations :
        Temperature(k) = IF gen.call.allowed_given
                         THEN Float(5 + 2 * (k - 1), 0)
                         ELSE Float(10, 0)

\* C31: within a call the temperature of invocation k+1 is
\* min(1.0, temperature of invocation k + 0.2) in double arithmetic, so the
\* temperatures do not decrease and none exceeds 1.0; a call offered a
\* non-empty option list runs at 0.5, 0.7, 0.8999999999999999, a free-text
\* call and a call offered an empty option list at 1.0, 1.0, 1.0.
TemperatureBackOff ==
    /\ \A k \in Invocations :
          /\ FloatLeq(Temperature(k), Float(10, 0))
          /\ k > 1 =>
                /\ Temperature(k) =
                      FloatMin(Float(10, 0), FloatAdd(Temperature(k - 1), Float(2, 0)))
                /\ FloatLeq(Temperature(k - 1), Temperature(k))
    /\ \A k \in Invocations :
          Temperature(k) =
              IF OptionsOffered
              THEN <<Float(5, 0), Float(7, 0), Float(9, -1)>>[k]
              ELSE Float(10, 0)

\* A call offered options has made its third invocation
ThirdInvocationWithOptions ==
    /\ OptionsOffered
    /\ Len(gen.temperatures) = 3
    /\ Temperature(3) = Float(9, -1)

====
